---- MODULE Spec2Model ----
(***************************************************************************)
(* Model of the oscilloscope screenshot client (src/osc/osc.py): the       *)
(* OscilloscopeCapture object, the capture flow of main(), the binary      *)
(* block frame reader of get_screenshot and the output file naming; and of *)
(* build_filename of the VISA variant (src/osc.py).                        *)
(*                                                                         *)
(* Bytes are one-character strings.  A command is a sequence of tokens     *)
(* (the text, an argument, the terminator "\n"); a send puts a prefix of   *)
(* that sequence on the wire.                                              *)
(***************************************************************************)
EXTENDS Integers, Sequences, FiniteSets, TLC

VARIABLES
    vendor,           \* self.vendor (lower-cased)
    ip_address,       \* self.ip_address, "None" when absent
    mac_address,      \* self.mac_address: a sequence of characters, empty when absent
    sock,             \* self.sock: "None" or "socket"
    sock_state,       \* the socket itself: "none", "created", "connected", "closed"
    sock_timeout,     \* the socket's timeout in seconds (0: no socket yet)
    close_count,      \* number of close() calls made on the socket
    wire_out,         \* tokens the transport accepted, in order
    instrument,       \* the instrument at the other end: "any" or "conforming"
    reply,            \* bytes the instrument answers the capture command with
    rx_pos,           \* number of bytes of reply already handed out by recv
    last_recv,        \* outcome of the latest recv of the frame reader
    pc,               \* position of main(): or "api" when methods are called directly
    gs,               \* position inside get_screenshot
    arg_filename,     \* get_screenshot's filename argument, "None" when absent
    original_timeout, \* get_screenshot's local original_timeout
    header,           \* get_screenshot's local header
    digit_count,      \* get_screenshot's local digit_count
    length_str,       \* get_screenshot's local length_str
    data_length,      \* get_screenshot's local data_length
    image_data,       \* get_screenshot's local image_data
    exc,              \* exception raised inside the running call, "none" if none
    result,           \* return value of the latest get_screenshot, "None" if none
    reported,         \* error printed by main's except clause, "none" if none
    dir_exists,       \* whether the output directory exists
    files,            \* paths that exist in the output directory
    written,          \* files written by this program: set of [path, data]
    calls,            \* number of direct method calls made (api driver)
    last_call,        \* the latest method call: [op, cmd, mark, status]
    built,            \* result of build_filename (src/osc.py), "None" before the call
    info,             \* return value of the latest get_info: "unset", "text" or "None"
    lookups,          \* number of calls of find_ip_by_mac
    conn_log,         \* addresses passed to sock.connect, in order
    arp_table,        \* rows printed by arp -a, top to bottom: [tag, mac, ip]
    platform          \* platform.system().lower()

vars == << vendor, ip_address, mac_address, sock, sock_state, sock_timeout,
           close_count, wire_out, instrument, reply, rx_pos, last_recv, pc, gs,
           arg_filename, original_timeout, header, digit_count, length_str, data_length,
           image_data, exc, result, reported, dir_exists, files, written, calls,
           last_call, built, info, lookups, conn_log, arp_table, platform >>

cfgVars == << vendor, ip_address, mac_address, instrument, arp_table, platform >>
objVars == << vendor, ip_address, mac_address, instrument, arp_table, platform,
              info, lookups, conn_log >>
sockVars == << sock, sock_state, sock_timeout, close_count >>
frameVars == << header, digit_count, length_str, data_length, image_data >>
fsVars == << dir_exists, files, written >>

----------------------------------------------------------------------------
\* Bounds of the model.

\* longest payload the modelled instrument sends
MaxPayload == 2
\* highest counter of a file already present in the output directory
MaxFiles == 1
\* highest counter of a file already present when the allocator is run alone
MaxProbe == 10
\* number of direct method calls in the api driver
MaxCalls == 3
\* most rows of a neighbour table
MaxRows == 2

----------------------------------------------------------------------------
\* Program constants.

\* OscilloscopeCapture.__init__: timeout=10
DefaultTimeout == 10
\* get_screenshot: self.sock.settimeout(15)
CaptureTimeout == 15
\* get_screenshot: while len(header) < 2
HeaderSize == 2
\* get_screenshot: min(4096, ...)
RecvCap == 4096

Min(a, b) == IF a < b THEN a ELSE b

Vendors == {"rigol", "keysight", "tektronix", "other"}

----------------------------------------------------------------------------
\* Python's int(str) on the text of a length field.

DigitChars == {"0", "1", "2", "3", "4", "5", "6", "7", "8", "9"}

DigitVal(c) ==
    CASE c = "0" -> 0 [] c = "1" -> 1 [] c = "2" -> 2 [] c = "3" -> 3
      [] c = "4" -> 4 [] c = "5" -> 5 [] c = "6" -> 6 [] c = "7" -> 7
      [] c = "8" -> 8 [] c = "9" -> 9

WhiteSpace == {" ", "\t", "\n", "\r"}

RECURSIVE LStrip(_)
LStrip(s) ==
    IF s # << >> /\ Head(s) \in WhiteSpace THEN LStrip(Tail(s)) ELSE s

RECURSIVE RStrip(_)
RStrip(s) ==
    IF s # << >> /\ s[Len(s)] \in WhiteSpace
    THEN RStrip(SubSeq(s, 1, Len(s) - 1)) ELSE s

\* digits, with single underscores allowed between two digits
DigitsWellFormed(s) ==
    /\ s # << >>
    /\ s[1] \in DigitChars
    /\ s[Len(s)] \in DigitChars
    /\ \A i \in 1..Len(s) : s[i] \in DigitChars \cup {"_"}
    /\ \A i \in 1..(Len(s) - 1) : ~(s[i] = "_" /\ s[i + 1] = "_")

RECURSIVE DigitsValue(_, _)
DigitsValue(s, acc) ==
    IF s = << >> THEN acc
    ELSE IF Head(s) = "_" THEN DigitsValue(Tail(s), acc)
    ELSE DigitsValue(Tail(s), 10 * acc + DigitVal(Head(s)))

\* int(s): [ok |-> TRUE, val |-> n], or ok = FALSE where Python raises ValueError
PyInt(s) ==
    LET t == RStrip(LStrip(s))
        signed == t # << >> /\ Head(t) \in {"+", "-"}
        body == IF signed THEN Tail(t) ELSE t
        mag == DigitsValue(body, 0)
    IN  IF ~DigitsWellFormed(body) THEN [ok |-> FALSE, val |-> 0]
        ELSE [ok |-> TRUE, val |-> IF signed /\ Head(t) = "-" THEN 0 - mag ELSE mag]

----------------------------------------------------------------------------
\* Paths of the output directory: <dir>/<base>_<num>.<ext>

NoPath == [base |-> "", num |-> << >>, ext |-> ""]

\* the model identifier, lower-cased (no label, no prefix configured)
BaseName == "dho924"
\* build_filename's f"{today_str}_{label}"
BuildBase == "2026_11_02_label"
\* a filename passed explicitly to get_screenshot
ExplicitPath == [base |-> "shot", num |-> << >>, ext |-> "png"]

DigitChar(d) ==
    CASE d = 0 -> "0" [] d = 1 -> "1" [] d = 2 -> "2" [] d = 3 -> "3"
      [] d = 4 -> "4" [] d = 5 -> "5" [] d = 6 -> "6" [] d = 7 -> "7"
      [] d = 8 -> "8" [] d = 9 -> "9"

RECURSIVE Decimal(_)
Decimal(n) ==
    IF n < 10 THEN << DigitChar(n) >>
    ELSE Append(Decimal(n \div 10), DigitChar(n % 10))

\* the format specifications {counter:02d} and {counter:02}
Fmt02(n) == IF n < 10 THEN << "0" >> \o Decimal(n) ELSE Decimal(n)

\* get_default_extension answering png for every vendor
DefaultExtensionPng(v) == "png"

\* get_default_extension
DefaultExtension(v) ==
    CASE v = "rigol" -> "bmp"
      [] v = "keysight" -> "png"
      [] v = "tektronix" -> "png"
      [] OTHER -> "bmp"

\* os.path.exists(candidate) / filename.exists()
Exists(fs, p) == p \in fs

\* counter = 0
FirstCounterZero == 1 - 1

\* get_screenshot: counter = 1 / build_filename: counter = 1
FirstCounter == 1

\* get_screenshot: candidate = os.path.join(output_dir, f"{base_name}_{counter:02d}.{ext}")
Candidate(base, counter, ext) == [base |-> base, num |-> Fmt02(counter), ext |-> ext]

\* get_screenshot: the while True probing loop
RECURSIVE Probe(_, _, _, _)
Probe(fs, base, ext, counter) ==
    IF ~Exists(fs, Candidate(base, counter, ext))
    THEN Candidate(base, counter, ext)
    ELSE Probe(fs, base, ext, counter + 1)

\* get_screenshot: the path chosen when filename is None
Allocate(fs, v) == Probe(fs, BaseName, DefaultExtension(v), FirstCounter)

\* build_filename (src/osc.py): the while filename.exists() loop
RECURSIVE BuildProbe(_, _, _)
BuildProbe(fs, base, counter) ==
    LET filename == [base |-> base, num |-> Fmt02(counter), ext |-> "png"]
    IN  IF Exists(fs, filename) THEN BuildProbe(fs, base, counter + 1) ELSE filename

\* build_filename (src/osc.py)
BuildFilename(fs) == BuildProbe(fs, BuildBase, FirstCounter)

----------------------------------------------------------------------------
\* Commands and the transport.

\* get_screenshot_command
ScreenshotCommand(v) ==
    CASE v = "rigol" -> << ":DISPlay:DATA?" >>
      [] v = "keysight" -> << ":DISPlay:DATA?", " PNG" >>
      [] v = "tektronix" -> << "HARDCopy:PORT ETHernet" >>
      [] OTHER -> << ":DISPlay:DATA?" >>

IdnCommand == << "*IDN?" >>

\* send_command / query_command: if not command.endswith('\n'): command += '\n'
Terminated(command) ==
    IF command # << >> /\ command[Len(command)] = "\n"
    THEN command ELSE Append(command, "\n")

\* self.sock.send(data): the number of leading tokens the transport accepts,
\* 0 standing for an exception raised by send
SendOutcomes(data) ==
    {0} \cup (IF sock_state = "connected" THEN 1..Len(data) ELSE {})

\* the bytes of data that reach the wire when send accepts k of them
Transmit(data, k) == wire_out' = wire_out \o SubSeq(data, 1, k)

Call(op, cmd, status) ==
    last_call' = [op |-> op, cmd |-> cmd, mark |-> Len(wire_out), status |-> status]

\* the test of self.sock left out
NoSocketUnchecked == FALSE

\* if not self.sock
NoSocket == sock = "None"

\* send_command(command), the transport accepting k tokens: sets exc
SendCommand(command, k) ==
    IF NoSocket
    THEN /\ exc' = "NotConnected"
         /\ Call("send_command", command, "refused")
         /\ UNCHANGED wire_out
    ELSE IF k = 0
    THEN /\ exc' = "SendError"
         /\ Call("send_command", command, "error")
         /\ UNCHANGED wire_out
    ELSE /\ exc' = "none"
         /\ Call("send_command", command, "sent")
         /\ Transmit(Terminated(command), k)

----------------------------------------------------------------------------
\* connect and disconnect.

ConfiguredIp == "192.168.1.50"
TableIp == "192.168.1.77"
OtherIp == "192.168.1.78"

NoMac == << >>

\* the hardware address as load_config leaves it: lower case, no separators
ConfigMac == << "a", "a", "b", "b", "c", "c", "d", "d", "e", "e", "f", "f" >>

\* str.lower() on one character; only hexadecimal letters occur
Lower(c) ==
    CASE c = "A" -> "a" [] c = "B" -> "b" [] c = "C" -> "c"
      [] c = "D" -> "d" [] c = "E" -> "e" [] c = "F" -> "f"
      [] OTHER -> c

LowerSeq(s) == [i \in 1..Len(s) |-> Lower(s[i])]

\* s.replace(ch, '')
RECURSIVE Remove(_, _)
Remove(s, ch) ==
    IF s = << >> THEN << >>
    ELSE IF Head(s) = ch THEN Remove(Tail(s), ch)
    ELSE << Head(s) >> \o Remove(Tail(s), ch)

HexLower == DigitChars \cup {"a", "b", "c", "d", "e", "f"}

\* the separators the hardware address pattern of the platform accepts
MacSeps(system) == IF system = "windows" THEN {"-"} ELSE {":", "-"}

\* re.search(r'([0-9a-f]{2}<sep>){5}[0-9a-f]{2}', line.lower()), on the
\* hardware address column of the row
MacMatch(text, seps) ==
    /\ Len(text) = 17
    /\ \A i \in 1..17 : IF i % 3 = 0 THEN text[i] \in seps ELSE text[i] \in HexLower

\* the unix branch looking for the word of the windows branch
RowWordDynamic(system) == "dynamic"

\* the word a row must hold to be looked at
RowWord(system) == IF system = "windows" THEN "dynamic" ELSE "ether"

\* mac_match.group().replace('-', '').replace(':', '').lower()
FoundMac(text) == LowerSeq(Remove(Remove(text, "-"), ":"))

\* the loop over the rows of the table; a row of the platform's listing
\* shows its address where the platform's address pattern looks for it
RECURSIVE ScanRows(_, _, _)
ScanRows(system, rows, target_mac) ==
    IF rows = << >> THEN "None"
    ELSE LET line == Head(rows)
         IN  IF /\ line.tag = RowWord(system)
                /\ MacMatch(LowerSeq(line.mac), MacSeps(system))
                /\ FoundMac(LowerSeq(line.mac)) = target_mac
             THEN line.ip
             ELSE ScanRows(system, Tail(rows), target_mac)

\* find_ip_by_mac(mac_address), the listing command having run
FindIpByMac(system, table, mac) == ScanRows(system, table, LowerSeq(mac))

\* find_ip_by_mac(self.mac_address): "None" also when the listing raises
FoundValues == {"None", FindIpByMac(platform, arp_table, mac_address)}

\* connect looks the address up whenever a hardware address is configured
NeedsLookupMacFirst == mac_address # NoMac

\* if not self.ip_address: if self.mac_address: -- the lookup is needed
NeedsLookup == ip_address = "None" /\ mac_address # NoMac

\* connect: the address connected to, "None" when resolution fails;
\* found is what find_ip_by_mac returns
ResolvedAddress(found) ==
    IF NeedsLookup THEN found ELSE ip_address

\* what connect prints when it returns False, "none" when it returns True
ConnectReport(found, sock_ok, conn_ok) ==
    IF ResolvedAddress(found) = "None"
    THEN (IF NeedsLookup THEN "MacNotFound" ELSE "NoAddress")
    ELSE IF sock_ok /\ conn_ok THEN "none" ELSE "ConnectionFailed"

\* connect's return value
ConnectRet(found, sock_ok, conn_ok) ==
    ResolvedAddress(found) # "None" /\ sock_ok /\ conn_ok

\* connect(): find_ip_by_mac returns found, socket.socket() succeeds iff
\* sock_ok, sock.connect() succeeds iff conn_ok
ConnectOp(found, sock_ok, conn_ok) ==
    /\ ip_address' = ResolvedAddress(found)
    /\ lookups' = IF NeedsLookup THEN lookups + 1 ELSE lookups
    /\ IF ResolvedAddress(found) # "None" /\ sock_ok
       THEN /\ sock' = "socket"
            /\ sock_state' = IF conn_ok THEN "connected" ELSE "created"
            /\ sock_timeout' = DefaultTimeout
            /\ close_count' = 0
            /\ conn_log' = Append(conn_log, ResolvedAddress(found))
       ELSE UNCHANGED << sockVars, conn_log >>
    /\ reported' = ConnectReport(found, sock_ok, conn_ok)
    /\ Call("connect", << >>,
            IF ConnectRet(found, sock_ok, conn_ok) THEN "true" ELSE "false")
    /\ UNCHANGED << vendor, mac_address, instrument, arp_table, platform, info >>

\* disconnect() without the test of self.sock
DisconnectUnguarded ==
    /\ sock_state' = "closed"
    /\ close_count' = close_count + 1
    /\ sock' = "None"
    /\ Call("disconnect", << >>, IF sock # "None" THEN "closed" ELSE "noop")
    /\ UNCHANGED sock_timeout

\* disconnect()
DisconnectOp ==
    /\ IF sock # "None"
       THEN /\ sock_state' = "closed"
            /\ close_count' = close_count + 1
            /\ sock' = "None"
            /\ Call("disconnect", << >>, "closed")
       ELSE /\ UNCHANGED << sock, sock_state, close_count >>
            /\ Call("disconnect", << >>, "noop")
    /\ UNCHANGED sock_timeout

\* query_command's self.sock.recv(1024): bytes of an earlier reply still unread
\* are what it returns first; j of them are taken
QueryRecvSize == 1024
QueryTakes == IF rx_pos < Len(reply)
              THEN 1..Min(QueryRecvSize, Len(reply) - rx_pos) ELSE {0}

\* what recv(1024).decode() makes of the answer to a query: the text, the
\* empty text of a closed connection, a timeout, bytes that do not decode;
\* bytes still unread are returned at once
QueryAnswers == IF rx_pos < Len(reply)
                THEN {"text"} ELSE {"text", "empty", "timeout", "undecodable"}

\* the answers that raise inside query_command
AnswerRaises(rcv) == rcv \in {"timeout", "undecodable"}

\* get_info(): query_command("*IDN?") with every exception swallowed; the
\* transport accepts k tokens (0: send raises), recv takes j unread bytes
\* and the answer is rcv
GetInfoOp(k, j, rcv) ==
    /\ IF NoSocket
       THEN /\ Call("get_info", IdnCommand, "refused")
            /\ info' = "None"
            /\ UNCHANGED << wire_out, rx_pos >>
       ELSE IF k = 0
       THEN /\ Call("get_info", IdnCommand, "error")
            /\ info' = "None"
            /\ UNCHANGED << wire_out, rx_pos >>
       ELSE /\ Call("get_info", IdnCommand, rcv)
            /\ info' = IF AnswerRaises(rcv) THEN "None" ELSE "text"
            /\ Transmit(Terminated(IdnCommand), k)
            /\ rx_pos' = IF rcv = "text" THEN rx_pos + j ELSE rx_pos
    /\ UNCHANGED exc

----------------------------------------------------------------------------
\* The instrument's answers to the capture command.

HeaderBytes == {"#", "x"}
CountBytes == {"0", "1", "2", "x"}
LenChars == {"0", "1", "2", "-", " ", "x"}
\* payload bytes: the i-th byte sent is the i-th letter, so that a payload
\* received out of order, twice or in part differs from the one sent
PayloadLetters == << "a", "b", "c", "d", "e", "f", "g", "h" >>
Payloads == {SubSeq(PayloadLetters, 1, n) : n \in 0..MaxPayload}

SeqsUpTo(S, n) == UNION {[1..k -> S] : k \in 0..n}
Prefixes(s) == {SubSeq(s, 1, k) : k \in 0..Len(s)}

\* frames with a well-formed two-byte header: any length field, then a payload
FramedReplies ==
    {<< "#", d >> \o f \o p :
        d \in {"1", "2"}, f \in UNION {[1..n -> LenChars] : n \in 1..2},
        p \in Payloads}

\* every answer the instrument may give, cut short at any byte
Replies ==
    {<< >>} \cup {<< a >> : a \in HeaderBytes}
    \cup {<< a, b >> : a \in HeaderBytes, b \in CountBytes}
    \cup UNION {Prefixes(s) : s \in FramedReplies}

\* a conforming instrument answers with a complete frame whose length field is
\* the decimal payload length, padded with zeros to one or two digits
ConformingReplies ==
    {<< "#", "1" >> \o Decimal(Len(p)) \o p : p \in {q \in Payloads : Len(q) < 10}}
    \cup {<< "#", "2" >> \o Fmt02(Len(p)) \o p : p \in {q \in Payloads : Len(q) < 100}}

RepliesOf(kind) == IF kind = "conforming" THEN ConformingReplies ELSE Replies

\* self.sock.recv(n) in the frame reader: some of the bytes still to come, or,
\* when none is left, the peer's close (b"") or the timeout's expiry
RecvOutcomes(n) ==
    IF rx_pos < Len(reply)
    THEN {[kind |-> "data", chunk |-> SubSeq(reply, rx_pos + 1, rx_pos + k)] :
              k \in 1..Min(n, Len(reply) - rx_pos)}
    ELSE {[kind |-> "eof", chunk |-> << >>], [kind |-> "timeout", chunk |-> << >>]}

----------------------------------------------------------------------------
\* get_screenshot, one step per blocking call.

\* recv(2) whatever is already in header
HeaderRequestWhole(h) == HeaderSize

\* recv(2 - len(header))
HeaderRequest(h) == HeaderSize - Len(h)
\* recv(digit_count - len(length_str))
LengthRequest(dc, ls) == dc - Len(ls)
\* recv(min(4096, data_length - len(image_data)))
ImageRequest(dl, img) == Min(RecvCap, dl - Len(img))

\* the check of the empty chunk left out
PeerClosedIgnored(chunk) == FALSE

\* if not chunk
PeerClosed(chunk) == chunk = << >>

\* the payload loop left after its first recv at the latest
ImageCompleteAtOnce(img, dl) == TRUE

\* while len(image_data) < data_length: the loop is over
ImageComplete(img, dl) == ~(Len(img) < dl)

\* an empty chunk treated as the expiry of the timeout
ClosedErrorAsTimeout(phase) == "Timeout"

\* the exception a recv that returns b"" leads to
ClosedError(phase) ==
    CASE phase = "header" -> "ClosedBeforeHeader"
      [] phase = "length" -> "ClosedBeforeLength"
      [] phase = "image" -> "ClosedDuringImage"

ClosedErrors == {"ClosedBeforeHeader", "ClosedBeforeLength", "ClosedDuringImage"}

\* the header checks with digit_count < 0 in place of digit_count <= 0
HeaderCheckNegativeOnly(h) ==
    IF h[1] # "#" THEN "MissingMarker"
    ELSE IF ~PyInt(<< h[2] >>).ok THEN "ValueError"
    ELSE IF PyInt(<< h[2] >>).val < 0 THEN "InvalidLengthDigit"
    ELSE "ok"

\* the checks made on the two header bytes: "ok" or the exception raised
HeaderCheck(h) ==
    IF h[1] # "#" THEN "MissingMarker"
    ELSE IF ~PyInt(<< h[2] >>).ok THEN "ValueError"
    ELSE IF PyInt(<< h[2] >>).val <= 0 THEN "InvalidLengthDigit"
    ELSE "ok"

\* data_length = int(length_str.decode()): "ok" or the exception raised
LengthCheck(ls) == IF PyInt(ls).ok THEN "ok" ELSE "ValueError"

\* an exception inside the try block: control goes to the finally clause
Raise(e) == exc' = e /\ gs' = "finally"

\* the timeout restored after the file is written, not in a finally clause
RestoreOnSuccess == sock_timeout' = IF exc = "none" THEN original_timeout ELSE sock_timeout

\* finally: self.sock.settimeout(original_timeout)
RestoreTimeout == sock_timeout' = original_timeout

\* get_screenshot(filename): entry up to the try block
GsEnter(fn) ==
    /\ gs = "idle"
    /\ arg_filename' = fn
    /\ header' = << >> /\ digit_count' = 0 /\ length_str' = << >>
    /\ data_length' = 0 /\ image_data' = << >>
    /\ result' = NoPath
    /\ last_recv' = "none"
    /\ IF NoSocket
       THEN /\ exc' = "NotConnected"
            /\ gs' = "raised"
            /\ Call("get_screenshot", << >>, "refused")
            /\ UNCHANGED << original_timeout, sock_timeout >>
       ELSE /\ exc' = "none"
            /\ gs' = "send"
            /\ Call("get_screenshot", << >>, "entered")
            /\ original_timeout' = sock_timeout
            /\ sock_timeout' = CaptureTimeout
    /\ UNCHANGED << objVars, sock, sock_state, close_count, wire_out, reply, rx_pos,
                    reported, fsVars, built >>

\* self.send_command(self.get_screenshot_command()); the instrument's answer
\* follows whatever of an earlier answer is still unread
GsSend ==
    /\ gs = "send"
    /\ \E k \in SendOutcomes(Terminated(ScreenshotCommand(vendor))) :
         /\ SendCommand(ScreenshotCommand(vendor), k)
         /\ IF k = 0
            THEN /\ gs' = "finally"
                 /\ UNCHANGED << reply, rx_pos >>
            ELSE /\ gs' = "header"
                 /\ \E r \in RepliesOf(instrument) :
                      reply' = SubSeq(reply, rx_pos + 1, Len(reply)) \o r
                 /\ rx_pos' = 0
    /\ UNCHANGED << objVars, sockVars, last_recv, pc, arg_filename, original_timeout,
                    frameVars, result, reported, fsVars, calls, built >>

\* while len(header) < 2: one recv, then the header checks once it is complete
GsRecvHeader ==
    /\ gs = "header"
    /\ \E r \in RecvOutcomes(HeaderRequest(header)) :
         /\ last_recv' = r.kind
         /\ rx_pos' = rx_pos + Len(r.chunk)
         /\ IF r.kind = "timeout"
            THEN Raise("Timeout") /\ UNCHANGED << header, digit_count >>
            ELSE IF PeerClosed(r.chunk)
            THEN Raise(ClosedError("header")) /\ UNCHANGED << header, digit_count >>
            ELSE /\ header' = header \o r.chunk
                 /\ IF Len(header') < HeaderSize
                    THEN UNCHANGED << gs, exc, digit_count >>
                    ELSE /\ digit_count' = IF header'[1] = "#" /\ PyInt(<< header'[2] >>).ok
                                           THEN PyInt(<< header'[2] >>).val ELSE digit_count
                         /\ IF HeaderCheck(header') = "ok"
                            THEN gs' = "length" /\ UNCHANGED exc
                            ELSE Raise(HeaderCheck(header'))
    /\ UNCHANGED << objVars, sockVars, wire_out, reply, pc, arg_filename,
                    original_timeout, length_str, data_length, image_data, result,
                    reported, fsVars, calls, last_call, built >>

\* while len(length_str) < digit_count: one recv, then int() once complete
GsRecvLength ==
    /\ gs = "length"
    /\ \E r \in RecvOutcomes(LengthRequest(digit_count, length_str)) :
         /\ last_recv' = r.kind
         /\ rx_pos' = rx_pos + Len(r.chunk)
         /\ IF r.kind = "timeout"
            THEN Raise("Timeout") /\ UNCHANGED << length_str, data_length >>
            ELSE IF PeerClosed(r.chunk)
            THEN Raise(ClosedError("length")) /\ UNCHANGED << length_str, data_length >>
            ELSE /\ length_str' = length_str \o r.chunk
                 /\ IF Len(length_str') < digit_count
                    THEN UNCHANGED << gs, exc, data_length >>
                    ELSE IF LengthCheck(length_str') # "ok"
                    THEN Raise(LengthCheck(length_str')) /\ UNCHANGED data_length
                    ELSE /\ data_length' = PyInt(length_str').val
                         /\ gs' = IF ImageComplete(image_data, data_length')
                                  THEN "save" ELSE "image"
                         /\ UNCHANGED exc
    /\ UNCHANGED << objVars, sockVars, wire_out, reply, pc, arg_filename,
                    original_timeout, header, digit_count, image_data, result,
                    reported, fsVars, calls, last_call, built >>

\* while len(image_data) < data_length: one recv
GsRecvImage ==
    /\ gs = "image"
    /\ \E r \in RecvOutcomes(ImageRequest(data_length, image_data)) :
         /\ last_recv' = r.kind
         /\ rx_pos' = rx_pos + Len(r.chunk)
         /\ IF r.kind = "timeout"
            THEN Raise("Timeout") /\ UNCHANGED image_data
            ELSE IF PeerClosed(r.chunk)
            THEN Raise(ClosedError("image")) /\ UNCHANGED image_data
            ELSE /\ image_data' = image_data \o r.chunk
                 /\ gs' = IF ImageComplete(image_data', data_length)
                          THEN "save" ELSE "image"
                 /\ UNCHANGED exc
    /\ UNCHANGED << objVars, sockVars, wire_out, reply, pc, arg_filename,
                    original_timeout, header, digit_count, length_str, data_length,
                    result, reported, fsVars, calls, last_call, built >>

\* the path allocated whether or not a filename was passed
TargetPathAllocated(fn, fs, v) == Allocate(fs, v)

\* if filename is None: the allocated path; else the filename passed
TargetPath(fn, fs, v) == IF fn = NoPath THEN Allocate(fs, v) ELSE fn

\* the write of the payload: makedirs and the allocation when no filename was
\* passed, then open(filename, 'wb') and f.write(image_data)
GsSave ==
    /\ gs = "save"
    /\ \E io \in {"ok", "mkdir_fail", "open_fail", "write_fail"} :
         LET allocating == arg_filename = NoPath
             made == allocating /\ io # "mkdir_fail"
             filename == TargetPath(arg_filename, files, vendor)
         IN  /\ io = "mkdir_fail" => allocating /\ ~dir_exists
             /\ io \in {"ok", "write_fail"} => dir_exists \/ made
             /\ dir_exists' = (dir_exists \/ made)
             /\ IF io \in {"ok", "write_fail"}
                THEN /\ files' = files \cup {filename}
                     /\ written' = {w \in written : w.path # filename} \cup
                            {[path |-> filename,
                              data |-> IF io = "ok" THEN image_data ELSE << >>]}
                ELSE UNCHANGED << files, written >>
             /\ IF io = "ok"
                THEN result' = filename /\ exc' = "none" /\ gs' = "finally"
                ELSE Raise("OSError") /\ UNCHANGED result
    /\ UNCHANGED << objVars, sockVars, wire_out, reply, rx_pos, last_recv, pc,
                    arg_filename, original_timeout, frameVars, reported, calls,
                    last_call, built >>

\* the finally clause, then the return or the propagation of the exception
GsFinally ==
    /\ gs = "finally"
    /\ RestoreTimeout
    /\ gs' = IF exc = "none" THEN "returned" ELSE "raised"
    /\ UNCHANGED << objVars, sock, sock_state, close_count, wire_out, reply, rx_pos,
                    last_recv, pc, arg_filename, original_timeout, frameVars, exc,
                    result, reported, fsVars, calls, last_call, built >>

GsStep == GsSend \/ GsRecvHeader \/ GsRecvLength \/ GsRecvImage \/ GsSave \/ GsFinally

----------------------------------------------------------------------------
\* main(): the capture flow.

\* scope.get_info() letting the exception of the query through
AfterGetInfoRaising(failed) == IF failed THEN "finally" ELSE "screenshot"

\* scope.get_info() returns, whatever the query did; get_screenshot is next
AfterGetInfo(failed) == "screenshot"

\* connect called again whenever it has returned False
AfterConnectRetry(ret) == IF ret THEN "get_info" ELSE "connect"

\* if not scope.connect(): return  -- placed before the try block
AfterConnectNoCleanup(ret) == IF ret THEN "get_info" ELSE "exit"

\* if not scope.connect(): return  -- the finally clause runs on the way out
AfterConnect(ret) == IF ret THEN "get_info" ELSE "finally"

MainConnect ==
    /\ pc = "connect"
    /\ \E found \in FoundValues, sock_ok \in BOOLEAN, conn_ok \in BOOLEAN :
         /\ ConnectOp(found, sock_ok, conn_ok)
         /\ pc' = AfterConnect(ConnectRet(found, sock_ok, conn_ok))
    /\ UNCHANGED << wire_out, reply, rx_pos, last_recv, gs, arg_filename,
                    original_timeout, frameVars, exc, result, fsVars,
                    calls, built >>

MainGetInfo ==
    /\ pc = "get_info"
    /\ \E k \in SendOutcomes(Terminated(IdnCommand)), j \in QueryTakes,
          rcv \in QueryAnswers :
         /\ GetInfoOp(k, j, rcv)
         /\ pc' = AfterGetInfo(info' = "None")
    /\ UNCHANGED << cfgVars, lookups, conn_log, sockVars, reply, last_recv, gs, arg_filename,
                    original_timeout, frameVars, result, reported, fsVars, calls,
                    built >>

\* scope.get_screenshot(label=label_arg)
MainScreenshot ==
    /\ pc = "screenshot"
    /\ GsEnter(NoPath)
    /\ UNCHANGED << pc, calls >>

\* the call of get_screenshot outside the try statement: no finally clause
AfterCaptureNoCleanup == "exit"

\* where main goes once get_screenshot is over: the finally clause
AfterCapture == "finally"

\* get_screenshot has returned, or raised into except Exception as e
MainExcept ==
    /\ pc = "screenshot"
    /\ gs \in {"returned", "raised"}
    /\ reported' = exc
    /\ pc' = AfterCapture
    /\ UNCHANGED << objVars, sockVars, wire_out, reply, rx_pos, last_recv, gs,
                    arg_filename, original_timeout, frameVars, exc, result, fsVars,
                    calls, last_call, built >>

\* finally: scope.disconnect()
MainFinally ==
    /\ pc = "finally"
    /\ DisconnectOp
    /\ pc' = "exit"
    /\ UNCHANGED << objVars, wire_out, reply, rx_pos, last_recv, gs, arg_filename,
                    original_timeout, frameVars, exc, result, reported, fsVars,
                    calls, built >>

NoCall == [op |-> "none", cmd |-> << >>, mark |-> 0, status |-> "none"]

\* the object after construction, with nothing called yet
Constructed ==
    /\ vendor \in Vendors
    /\ sock = "None" /\ sock_state = "none" /\ sock_timeout = 0 /\ close_count = 0
    /\ wire_out = << >> /\ reply = << >> /\ rx_pos = 0 /\ last_recv = "none"
    /\ gs = "idle" /\ arg_filename = NoPath /\ original_timeout = 0
    /\ header = << >> /\ digit_count = 0 /\ length_str = << >>
    /\ data_length = 0 /\ image_data = << >>
    /\ exc = "none" /\ result = NoPath /\ reported = "none"
    /\ written = {} /\ calls = 0 /\ last_call = NoCall /\ built = NoPath
    /\ info = "unset" /\ lookups = 0 /\ conn_log = << >>

\* a row of the neighbour table
Row(tag, mac, ip) == [tag |-> tag, mac |-> mac, ip |-> ip]

\* the hardware address as a listing prints it: octets joined by sep
RECURSIVE Joined(_, _)
Joined(digits, sep) ==
    IF Len(digits) <= 2 THEN digits
    ELSE SubSeq(digits, 1, 2) \o << sep >> \o Joined(SubSeq(digits, 3, Len(digits)), sep)

\* the neighbour table of the capture flow: the instrument's row alone
OneRowTable == << Row("ether", Joined(ConfigMac, ":"), TableIp) >>

\* the output directory: absent, or holding files of earlier captures
OutputDirs(n) ==
    {[exists |-> FALSE, files |-> {}]} \cup
    {[exists |-> TRUE, files |-> {Candidate(BaseName, c, e) : c \in S}] :
        S \in SUBSET (1..n), e \in {"bmp"}}

Init ==
    /\ Constructed
    /\ \E cfg \in {<< ConfiguredIp, NoMac >>, << ConfiguredIp, ConfigMac >>,
                   << "None", ConfigMac >>, << "None", NoMac >>} :
         ip_address = cfg[1] /\ mac_address = cfg[2]
    /\ arp_table = OneRowTable /\ platform = "linux"
    /\ \E d \in OutputDirs(MaxFiles) : dir_exists = d.exists /\ files = d.files
    /\ instrument = "any"
    /\ pc = "connect"

Next ==
    \/ MainConnect
    \/ MainGetInfo
    \/ MainScreenshot
    \/ GsStep
    \/ MainExcept
    \/ MainFinally

Spec == Init /\ [][Next]_vars

----------------------------------------------------------------------------
\* The methods called directly, in any order (no main()).

ApiCommands == {<< ":RUN" >>, << ":RUN", "\n" >>, << ":TRIG", " 1" >>}

\* query_command(command): send, then recv(1024).decode().strip(); the
\* transport accepts k tokens (0: send raises), recv takes j unread bytes or
\* times out
QueryCommand(command, k, j, timed_out) ==
    IF NoSocket
    THEN /\ exc' = "NotConnected"
         /\ Call("query_command", command, "refused")
         /\ UNCHANGED << wire_out, rx_pos >>
    ELSE IF k = 0
    THEN /\ exc' = "SendError"
         /\ Call("query_command", command, "error")
         /\ UNCHANGED << wire_out, rx_pos >>
    ELSE /\ Transmit(Terminated(command), k)
         /\ Call("query_command", command, "sent")
         /\ IF timed_out
            THEN exc' = "Timeout" /\ UNCHANGED rx_pos
            ELSE exc' = "none" /\ rx_pos' = rx_pos + j

ApiIdle == pc = "api" /\ gs = "idle" /\ calls < MaxCalls

ApiConnect ==
    /\ ApiIdle
    /\ sock = "None"
    /\ \E found \in FoundValues, sock_ok \in BOOLEAN, conn_ok \in BOOLEAN :
         ConnectOp(found, sock_ok, conn_ok)
    /\ exc' = "none"
    /\ calls' = calls + 1
    /\ UNCHANGED << wire_out, reply, rx_pos, last_recv, pc, gs, arg_filename,
                    original_timeout, frameVars, result, fsVars, built >>

ApiDisconnect ==
    /\ ApiIdle
    /\ DisconnectOp
    /\ exc' = "none"
    /\ calls' = calls + 1
    /\ UNCHANGED << objVars, wire_out, reply, rx_pos, last_recv, pc, gs, arg_filename,
                    original_timeout, frameVars, result, reported, fsVars, built >>

ApiSendCommand ==
    /\ ApiIdle
    /\ \E command \in ApiCommands :
         \E k \in SendOutcomes(Terminated(command)) : SendCommand(command, k)
    /\ calls' = calls + 1
    /\ UNCHANGED << objVars, sockVars, reply, rx_pos, last_recv, pc, gs, arg_filename,
                    original_timeout, frameVars, result, reported, fsVars, built >>

ApiQueryCommand ==
    /\ ApiIdle
    /\ \E command \in ApiCommands :
         \E k \in SendOutcomes(Terminated(command)), j \in QueryTakes,
            timed_out \in BOOLEAN : QueryCommand(command, k, j, timed_out)
    /\ calls' = calls + 1
    /\ UNCHANGED << objVars, sockVars, reply, last_recv, pc, gs, arg_filename,
                    original_timeout, frameVars, result, reported, fsVars, built >>

ApiGetInfo ==
    /\ ApiIdle
    /\ \E k \in SendOutcomes(Terminated(IdnCommand)), j \in QueryTakes,
          rcv \in QueryAnswers : GetInfoOp(k, j, rcv)
    /\ calls' = calls + 1
    /\ UNCHANGED << cfgVars, lookups, conn_log, sockVars, reply, last_recv, pc, gs, arg_filename,
                    original_timeout, frameVars, result, reported, fsVars, built >>

ApiScreenshot ==
    /\ ApiIdle
    /\ \E fn \in {NoPath, ExplicitPath} : GsEnter(fn)
    /\ calls' = calls + 1
    /\ UNCHANGED pc

\* get_screenshot is over: its caller has the path, or the exception
ApiReturn ==
    /\ pc = "api"
    /\ gs \in {"returned", "raised"}
    /\ gs' = "idle"
    /\ UNCHANGED << objVars, sockVars, wire_out, reply, rx_pos, last_recv, pc,
                    arg_filename, original_timeout, frameVars, exc, result, reported,
                    fsVars, calls, last_call, built >>

InitApi ==
    /\ Constructed
    /\ ip_address = ConfiguredIp /\ mac_address = NoMac
    /\ arp_table = OneRowTable /\ platform = "linux"
    /\ dir_exists \in BOOLEAN /\ files = {}
    /\ instrument = "conforming"
    /\ pc = "api"

NextApi ==
    \/ ApiConnect
    \/ ApiDisconnect
    \/ ApiSendCommand
    \/ ApiQueryCommand
    \/ ApiGetInfo
    \/ ApiScreenshot
    \/ GsStep
    \/ ApiReturn

SpecApi == InitApi /\ [][NextApi]_vars

----------------------------------------------------------------------------
\* The allocation of the output path run on its own, in both programs.

AllocRun ==
    /\ pc = "alloc"
    /\ result = NoPath
    /\ result' = Allocate(files, vendor)
    /\ UNCHANGED << objVars, sockVars, wire_out, reply, rx_pos, last_recv, pc, gs,
                    arg_filename, original_timeout, frameVars, exc, reported, fsVars,
                    calls, last_call, built >>

BuildRun ==
    /\ pc = "alloc"
    /\ built = NoPath
    /\ built' = BuildFilename(files)
    /\ UNCHANGED << objVars, sockVars, wire_out, reply, rx_pos, last_recv, pc, gs,
                    arg_filename, original_timeout, frameVars, exc, result, reported,
                    fsVars, calls, last_call >>

InitAlloc ==
    /\ Constructed
    /\ ip_address = ConfiguredIp /\ mac_address = NoMac
    /\ arp_table = OneRowTable /\ platform = "linux"
    /\ dir_exists = TRUE
    /\ \E base \in {BaseName, BuildBase}, e \in {"bmp", "png"}, S \in SUBSET (1..MaxProbe) :
         files = {Candidate(base, c, e) : c \in S}
    /\ instrument = "any"
    /\ pc = "alloc"

NextAlloc == AllocRun \/ BuildRun

SpecAlloc == InitAlloc /\ [][NextAlloc]_vars

----------------------------------------------------------------------------
\* connect with only a hardware address configured, over neighbour tables.

ConfigMacUpper == << "A", "A", "B", "B", "C", "C", "D", "D", "E", "E", "F", "F" >>
OtherMac == << "a", "a", "b", "b", "c", "c", "d", "d", "e", "e", "0", "1" >>

\* the column of a row whose address is not known yet
Incomplete == << "(", "incomplete", ")" >>

RowTags == {"ether", "dynamic", "static"}

\* hardware address columns as the platform's listing prints them
MacsOf(system) ==
    {Joined(m, sep) : m \in {ConfigMac, ConfigMacUpper, OtherMac},
                      sep \in (IF system = "windows" THEN {"-"} ELSE {":", "-"})}
        \cup {Incomplete}

RowsOf(system) ==
    {Row(t, m, a) : t \in RowTags, m \in MacsOf(system), a \in {TableIp, OtherIp}}

TablesOf(system) ==
    UNION {[1..n -> RowsOf(system)] : n \in 0..MaxRows}

\* connect(), the lookup running over the table
ResolveRun ==
    /\ pc = "arp"
    /\ \E found \in FoundValues, sock_ok \in BOOLEAN, conn_ok \in BOOLEAN :
         ConnectOp(found, sock_ok, conn_ok)
    /\ pc' = "arp_done"
    /\ UNCHANGED << wire_out, reply, rx_pos, last_recv, gs, arg_filename,
                    original_timeout, frameVars, exc, result, fsVars, calls, built >>

InitArp ==
    /\ Constructed
    /\ ip_address = "None" /\ mac_address = ConfigMac
    /\ platform \in {"windows", "linux"}
    /\ arp_table \in TablesOf(platform)
    /\ dir_exists = TRUE /\ files = {}
    /\ instrument = "any"
    /\ pc = "arp"

NextArp == ResolveRun

SpecArp == InitArp /\ [][NextArp]_vars

----------------------------------------------------------------------------
\* Frames as the protocol defines them, for stating the properties.

IsDecimal(f) == \A i \in 1..Len(f) : f[i] \in DigitChars

RECURSIVE FieldValue(_)
FieldValue(f) ==
    IF f = << >> THEN 0
    ELSE 10 * FieldValue(SubSeq(f, 1, Len(f) - 1)) + DigitVal(f[Len(f)])

FrameDigits(s) == DigitVal(s[2])
FrameField(s) == SubSeq(s, 3, 2 + FrameDigits(s))
FrameLength(s) == FieldValue(FrameField(s))
FramePayload(s) ==
    SubSeq(s, 3 + FrameDigits(s), 2 + FrameDigits(s) + FrameLength(s))

\* s starts with '#', a digit d in 1..9, d decimal digits encoding L, L bytes
ValidFrame(s) ==
    /\ Len(s) >= 2
    /\ s[1] = "#"
    /\ s[2] \in DigitChars \ {"0"}
    /\ Len(s) >= 2 + FrameDigits(s)
    /\ IsDecimal(FrameField(s))
    /\ Len(s) >= 2 + FrameDigits(s) + FrameLength(s)

\* get_screenshot is past its receive loops
PastReading == gs \in {"save", "finally", "returned", "raised"}

\* C1: for every valid frame and every way the transport splits its bytes
\* across recv calls, the frame reader ends with a payload of exactly L bytes,
\* equal to the L bytes sent; no framing, close or timeout error arises.
C1_FramePayloadExact ==
    (ValidFrame(reply) /\ PastReading) =>
        /\ exc \in {"none", "OSError"}
        /\ data_length = FrameLength(reply)
        /\ Len(image_data) = FrameLength(reply)
        /\ image_data = FramePayload(reply)

C1_Witness ==
    /\ ValidFrame(reply)
    /\ gs = "save"
    /\ FrameDigits(reply) = 2
    /\ image_data = << "a", "b" >>

\* C2: in every run of main the socket, once created, is closed by the time
\* the run ends, and close is called on it exactly once.
C2_SocketClosedOnce ==
    /\ close_count <= 1
    /\ pc = "exit" =>
         /\ sock = "None"
         /\ sock_state \in {"none", "closed"}
         /\ sock_state = "closed" => close_count = 1

C2_Witness ==
    /\ pc = "exit"
    /\ reported = "Timeout"
    /\ sock_state = "closed"
    /\ close_count = 1

\* the receive loop a recv that returns no bytes belongs to
EofError ==
    IF Len(header) < HeaderSize THEN "ClosedBeforeHeader"
    ELSE IF Len(length_str) < digit_count THEN "ClosedBeforeLength"
    ELSE "ClosedDuringImage"

\* C3: when the peer closes before all declared bytes are delivered, the
\* capture fails with the connection-closed error of the loop it was in, no
\* path is returned and nothing is written, and the socket is closed when the
\* run ends; the reader never leaves its loops with a short payload.
C3_ClosedEarlyFails ==
    /\ last_recv = "eof" =>
         /\ exc = EofError
         /\ gs \in {"finally", "raised"}
         /\ result = NoPath
         /\ written = {}
         /\ pc = "exit" => (sock_state = "closed" /\ reported = EofError)
    /\ (gs = "save" \/ result # NoPath) => Len(image_data) >= data_length

C3_Witness ==
    /\ last_recv = "eof"
    /\ data_length = 2
    /\ Len(image_data) = 1
    /\ pc = "exit"
    /\ sock_state = "closed"

\* C4: once the two header bytes are received, a first byte other than '#'
\* gives the missing-marker error, and '#' followed by '0' gives the
\* invalid-length-digit error; in both cases nothing more is read.
C4_HeaderRejected ==
    /\ (rx_pos >= HeaderSize /\ reply[1] # "#") =>
          /\ exc = "MissingMarker"
          /\ rx_pos = HeaderSize /\ length_str = << >> /\ image_data = << >>
          /\ gs \in {"finally", "raised"}
    /\ (rx_pos >= HeaderSize /\ reply[1] = "#" /\ reply[2] = "0") =>
          /\ exc = "InvalidLengthDigit"
          /\ rx_pos = HeaderSize /\ length_str = << >> /\ image_data = << >>
          /\ gs \in {"finally", "raised"}

C4_Witness ==
    /\ reply = << "#", "0" >>
    /\ exc = "InvalidLengthDigit"
    /\ pc = "exit"

\* C5: a length field that is not made only of decimal digits is rejected
\* with the invalid-length error (ValueError), and no frame is accepted whose
\* declared length is negative or differs from the accumulated payload length.
C5_LengthFieldStrict ==
    /\ (gs \notin {"idle", "send", "header"} /\ digit_count > 0
          /\ Len(length_str) = digit_count /\ ~IsDecimal(length_str)) =>
          (exc = "ValueError" /\ gs \in {"finally", "raised"})
    /\ (gs = "save" \/ result # NoPath) =>
          (data_length >= 0 /\ Len(image_data) = data_length)

InExchange == gs \in {"send", "header", "length", "image", "save", "finally"}

\* C6: the socket's timeout is the capture value (15 s) exactly while
\* get_screenshot is between its entry and the end of its finally clause, and
\* on every exit, normal or by any exception, it is the baseline value again.
C6_TimeoutScoped ==
    /\ InExchange => sock_timeout = CaptureTimeout
    /\ (~InExchange /\ sock_state # "none") => sock_timeout = DefaultTimeout

C6_Witness ==
    /\ gs = "raised"
    /\ exc = "OSError"
    /\ sock_timeout = DefaultTimeout
    /\ original_timeout = DefaultTimeout

\* C7: disconnect called while the object holds no socket (never opened, or
\* already closed) raises nothing and changes nothing.
C7_DisconnectIdempotent ==
    [][(pc = "api" /\ calls' = calls + 1 /\ last_call'.op = "disconnect"
          /\ sock = "None") =>
         (/\ exc' = "none"
          /\ last_call'.status = "noop"
          /\ UNCHANGED << objVars, sockVars, wire_out, reply, rx_pos, gs, result,
                          fsVars >>)]_vars

C7_Witness ==
    /\ last_call.op = "disconnect"
    /\ last_call.status = "noop"
    /\ sock_state = "closed"
    /\ close_count = 1

\* the command with one terminator at its end
WithOneTerminator(command) ==
    IF Len(command) > 0 /\ command[Len(command)] = "\n"
    THEN command ELSE command \o << "\n" >>

\* C8: after send_command or query_command has sent without an error, the
\* whole command, with exactly one terminator at its end, is on the wire.
C8_WholeCommandSent ==
    (last_call.op \in {"send_command", "query_command"} /\ last_call.status = "sent") =>
        SubSeq(wire_out, last_call.mark + 1, Len(wire_out))
            = WithOneTerminator(last_call.cmd)

\* the display-data query of each vendor
DisplayDataQuery(v) ==
    IF v = "keysight" THEN << ":DISPlay:DATA?", " PNG" >> ELSE << ":DISPlay:DATA?" >>

\* C9: when the frame reader reads, the command last handed to send_command
\* is the vendor's display-data query, and for Tektronix the hardcopy-port
\* configuration command was sent before it.
C9_QuerySentBeforeRead ==
    gs \in {"header", "length", "image"} =>
        /\ last_call.op = "send_command"
        /\ last_call.cmd = DisplayDataQuery(vendor)
        /\ vendor = "tektronix" =>
             \E i \in 1..Len(wire_out) : i <= last_call.mark
                                         /\ wire_out[i] = "HARDCopy:PORT ETHernet"

\* the two decimal digits of a counter below 100
TwoDigits(c) == << DigitChar(c \div 10), DigitChar(c % 10) >>

\* p is <base>_<cc>.<ext> for the smallest counter cc >= 1 whose path is not
\* in the directory
FirstFree(p, base, ext) ==
    \E c \in 1..(MaxProbe + 1) :
        /\ p = [base |-> base, num |-> TwoDigits(c), ext |-> ext]
        /\ p \notin files
        /\ \A j \in 1..(c - 1) : [base |-> base, num |-> TwoDigits(j), ext |-> ext] \in files

VendorExt == IF vendor \in {"keysight", "tektronix"} THEN "png" ELSE "bmp"

\* C10: the allocated path is the one with the smallest counter >= 1 that does
\* not exist when probed, so never an existing one: _01 in a directory without
\* files of that base, _02 when only _01 is there; in both programs.
C10_FirstFreePath ==
    /\ result # NoPath =>
         /\ FirstFree(result, BaseName, VendorExt)
         /\ (\A f \in files : f.base # BaseName \/ f.ext # VendorExt)
                => result.num = << "0", "1" >>
    /\ built # NoPath =>
         /\ FirstFree(built, BuildBase, "png")
         /\ (\A f \in files : f.base # BuildBase \/ f.ext # "png")
                => built.num = << "0", "1" >>

C10_Witness ==
    /\ result = [base |-> BaseName, num |-> << "0", "2" >>, ext |-> "bmp"]
    /\ [base |-> BaseName, num |-> << "0", "1" >>, ext |-> "bmp"] \in files
    /\ Cardinality(files) = 1

\* the first token of the capture command is on the wire
CaptureOnWire ==
    \E i \in 1..Len(wire_out) : wire_out[i] = ScreenshotCommand(vendor)[1]

\* C11: a failure of the identification query (send error, timeout,
\* undecodable answer) is swallowed: nothing is raised or reported for it, the
\* run goes on to get_screenshot, which hands the capture command to the
\* transport and, unless that send itself raises, reads the frame.
C11_InfoFailureSwallowed ==
    info = "None" =>
        /\ pc # "get_info"
        /\ (pc = "screenshot" /\ gs = "idle") => (exc = "none" /\ reported = "none")
        /\ pc \in {"finally", "exit"} =>
             /\ gs \in {"returned", "raised"}
             /\ exc # "NotConnected"
             /\ exc = "SendError" \/ (CaptureOnWire /\ last_recv # "none")
        /\ reported # "none" => (reported = exc /\ gs = "raised")

C11_Witness ==
    /\ info = "None"
    /\ pc = "exit"
    /\ ~(\E i \in 1..Len(wire_out) : wire_out[i] = "*IDN?")
    /\ CaptureOnWire
    /\ last_recv = "data"
    /\ result # NoPath


\* a step that is one call of connect
ConnectStep == last_call'.op = "connect" /\ (pc = "connect" \/ calls' = calls + 1)

\* C12: with an address configured, connect connects to that address, leaves
\* it as it is and does not look the hardware address up, whether or not one
\* is configured; with neither address nor hardware address, connect fails
\* without creating a socket or attempting a connection.
C12_ExplicitAddressUsed ==
    [][ConnectStep =>
         /\ ip_address # "None" =>
              /\ ip_address' = ip_address
              /\ lookups' = lookups
              /\ conn_log' \in {conn_log, Append(conn_log, ip_address)}
              /\ sock_state' = "connected" => conn_log' = Append(conn_log, ip_address)
         /\ (ip_address = "None" /\ mac_address = NoMac) =>
              /\ last_call'.status = "false"
              /\ lookups' = lookups
              /\ UNCHANGED << sockVars, conn_log, wire_out >>]_vars

C12_Witness ==
    /\ last_call.op = "connect"
    /\ mac_address = ConfigMac
    /\ ip_address = ConfiguredIp
    /\ conn_log = << ConfiguredIp >>
    /\ lookups = 0
    /\ sock_state = "connected"


\* the text is a hardware address: six octets with a separator between them
IsHardwareAddress(text) ==
    /\ Len(text) = 17
    /\ \A i \in 1..5 : text[3 * i] \in {":", "-"}

\* its twelve digits, separators left out and letters folded to lower case
NormalMac(text) ==
    [i \in 1..12 |->
        LET c == text[i + ((i - 1) \div 2)]
        IN  IF c \in {"A", "a"} THEN "a" ELSE IF c \in {"B", "b"} THEN "b"
            ELSE IF c \in {"C", "c"} THEN "c" ELSE IF c \in {"D", "d"} THEN "d"
            ELSE IF c \in {"E", "e"} THEN "e" ELSE IF c \in {"F", "f"} THEN "f" ELSE c]

\* row i is eligible on this platform and holds the target's hardware address
RowMatches(i) ==
    /\ arp_table[i].tag = (IF platform = "windows" THEN "dynamic" ELSE "ether")
    /\ IsHardwareAddress(arp_table[i].mac)
    /\ NormalMac(arp_table[i].mac) = mac_address

FirstMatches ==
    {i \in 1..Len(arp_table) : RowMatches(i) /\ \A j \in 1..(i - 1) : ~RowMatches(j)}

\* C13: with only the hardware address configured, connect looks it up once;
\* an address resolved is the one of the first row, from the top, that is
\* eligible on the platform and whose hardware address equals the target once
\* separators are stripped and case is folded; with no such row (or the
\* listing failing) nothing is resolved, no socket is created and no
\* connection is attempted.
C13_FirstEligibleRow ==
    pc = "arp_done" =>
        /\ lookups = 1
        /\ ip_address # "None" => \E i \in FirstMatches : ip_address = arp_table[i].ip
        /\ FirstMatches = {} => ip_address = "None"
        /\ ip_address = "None" =>
             /\ last_call.status = "false"
             /\ reported = "MacNotFound"
             /\ sock = "None" /\ sock_state = "none" /\ conn_log = << >>
        /\ conn_log \in {<< >>, << ip_address >>}

C13_Witness ==
    /\ pc = "arp_done"
    /\ platform = "linux"
    /\ Len(arp_table) = 2
    /\ arp_table[1] = Row("ether", Joined(ConfigMacUpper, "-"), OtherIp)
    /\ arp_table[2] = Row("ether", Joined(ConfigMac, ":"), TableIp)
    /\ ip_address = OtherIp
    /\ conn_log = << OtherIp >>
    /\ sock_state = "connected"


\* C14 as stated: whenever an error has been reported, for a failed connect
\* or a failed capture, the socket (if one was created) is closed already.
C14_ClosedBeforeReport ==
    reported # "none" => sock_state \in {"none", "closed"}

\* C14, amended: on every failing run the error is reported first, with the
\* socket not yet closed, and the socket is closed afterwards by main's
\* finally clause: a run that has ended has reported the error of its capture
\* and holds no open socket.
C14_ClosedAfterReport ==
    /\ reported # "none" =>
         /\ pc # "exit" => (pc = "finally" /\ sock_state # "closed")
         /\ pc = "exit" => (sock = "None" /\ sock_state \in {"none", "closed"})
    /\ (pc = "exit" /\ exc # "none") => reported = exc

C14_Witness ==
    /\ pc = "exit"
    /\ reported = "Timeout"
    /\ sock_state = "closed"
    /\ close_count = 1


\* how many times the first token of the capture command is on the wire
RECURSIVE CountToken(_, _)
CountToken(s, t) ==
    IF s = << >> THEN 0
    ELSE (IF Head(s) = t THEN 1 ELSE 0) + CountToken(Tail(s), t)

\* the run has failed: connect returned False, or get_screenshot raised
RunFailed ==
    \/ pc \in {"finally", "exit"} /\ gs = "idle"
    \/ exc # "none"

\* C15: a run makes at most one connection attempt and puts the capture
\* command on the wire at most once; when resolution or connect fails nothing
\* is sent at all; once the run has failed, or is past get_screenshot, no
\* step sends anything or connects again.
C15_SingleAttempt ==
    /\ [](/\ Len(conn_log) <= 1
          /\ lookups <= 1
          /\ CountToken(wire_out, ScreenshotCommand(vendor)[1]) <= 1
          /\ (pc \in {"finally", "exit"} /\ gs = "idle") => wire_out = << >>)
    /\ [][(RunFailed \/ pc \in {"finally", "exit"}) =>
            UNCHANGED << wire_out, conn_log, lookups >>]_vars

C15_Witness ==
    /\ pc = "exit"
    /\ reported = "ClosedDuringImage"
    /\ Len(conn_log) = 1
    /\ CountToken(wire_out, ScreenshotCommand(vendor)[1]) = 1


\* a run of the Rigol profile with the address configured, ended, in which
\* the instrument answered the capture command with a valid frame
RigolRunAnswered ==
    /\ vendor = "rigol"
    /\ lookups = 0 /\ conn_log = << ConfiguredIp >>
    /\ ValidFrame(reply)
    /\ pc = "exit"

\* C16: such a run fails only if writing the file fails; otherwise it has
\* saved: it returned the path <base>_<cc>.bmp, the file exists and its
\* content is exactly the L bytes of the frame, and cc is 01 when no other
\* file of that base is in the output directory.
C16_RigolEndToEnd ==
    RigolRunAnswered =>
        /\ reported \in {"none", "OSError"}
        /\ reported = "none" =>
             /\ result # NoPath
             /\ result.base = BaseName /\ result.ext = "bmp"
             /\ result \in files /\ dir_exists
             /\ written = {[path |-> result, data |-> FramePayload(reply)]}
             /\ Len(FramePayload(reply)) = FrameLength(reply)
             /\ (\A f \in files \ {result} : f.base # BaseName) =>
                    result.num = << "0", "1" >>

C16_Witness ==
    /\ RigolRunAnswered
    /\ reported = "none"
    /\ FrameLength(reply) = 2
    /\ written = {[path |-> [base |-> BaseName, num |-> << "0", "1" >>, ext |-> "bmp"],
                   data |-> << "a", "b" >>]}


\* the capture is aborted: an exception is on its way out of get_screenshot,
\* no path is returned and nothing was written
CaptureAborted ==
    /\ gs \in {"finally", "raised"}
    /\ result = NoPath
    /\ written = {}

\* C17: a recv of the frame reader that returns no byte gives a
\* connection-closed error, one whose timeout expires gives the timeout error,
\* the two are different errors, and either aborts the capture with no path
\* returned and no payload, partial or whole, written.
C17_ClosedVersusTimeout ==
    /\ last_recv = "eof" =>
         /\ exc \in {"ClosedBeforeHeader", "ClosedBeforeLength", "ClosedDuringImage"}
         /\ CaptureAborted
    /\ last_recv = "timeout" =>
         /\ exc = "Timeout"
         /\ CaptureAborted
    /\ last_recv \in {"eof", "timeout"} =>
         (pc = "exit" => reported = exc)

C17_Witness ==
    /\ last_recv = "timeout"
    /\ data_length = 2
    /\ image_data = << "a" >>
    /\ pc = "exit"
    /\ reported = "Timeout"


\* C18: the frame reader never holds more than it asked for: at most 2 header
\* bytes, at most d length digits, at most the declared L payload bytes, and
\* it never consumes more than 2 + d + L bytes of the instrument's answer.
C18_ReadsBounded ==
    /\ Len(header) <= HeaderSize
    /\ Len(length_str) <= digit_count
    /\ Len(image_data) <= data_length
    /\ rx_pos <= HeaderSize + digit_count + data_length


\* the step of get_screenshot that writes the file
SaveStep == gs = "save" /\ gs' # "save"

\* C19: with a filename passed, get_screenshot creates no directory, touches
\* no path but that one and, when it returns, has written the whole payload
\* to exactly that path, existing or not; with none passed, a path it returns
\* was free when probed, lies in the output directory, which exists by then,
\* and holds the whole payload.
C19_AllocationOnlyWithoutFilename ==
    [][SaveStep =>
         /\ arg_filename # NoPath =>
              /\ dir_exists' = dir_exists
              /\ files' \in {files, files \cup {arg_filename}}
              /\ \A w \in written' \ written : w.path = arg_filename
              /\ result' # NoPath =>
                   /\ result' = arg_filename
                   /\ arg_filename \in files'
                   /\ [path |-> arg_filename, data |-> image_data] \in written'
         /\ arg_filename = NoPath =>
              /\ files' # files => dir_exists'
              /\ result' # NoPath =>
                   /\ dir_exists'
                   /\ result'.base = BaseName
                   /\ result' \notin files
                   /\ files' = files \cup {result'}
                   /\ [path |-> result', data |-> image_data] \in written']_vars

C19_Witness ==
    /\ result = ExplicitPath
    /\ [path |-> ExplicitPath, data |-> << "a", "b" >>] \in written
    /\ Cardinality(written) = 2
    /\ calls = MaxCalls


\* the errors of the frame read: missing marker, bad length digit, bad
\* length, connection closed, timeout
FrameReadErrors ==
    {"MissingMarker", "InvalidLengthDigit", "ValueError", "ClosedBeforeHeader",
     "ClosedBeforeLength", "ClosedDuringImage", "Timeout"}

\* C20: the output directory and its files change only in the step that
\* follows the complete read of the frame (header, d length digits, all the
\* declared payload bytes, no error); from there no frame-read error can
\* arise, so a run whose frame read fails has written nothing, returned no
\* path and never changes the file system.
C20_NoOutputOnFailedRead ==
    /\ [](exc \in FrameReadErrors =>
            (written = {} /\ result = NoPath /\ gs \in {"finally", "raised"}))
    /\ [][fsVars' # fsVars =>
            /\ gs = "save" /\ exc = "none"
            /\ Len(header) = HeaderSize
            /\ Len(length_str) = digit_count
            /\ ~(Len(image_data) < data_length)]_vars
    /\ [][gs = "save" => exc' \notin FrameReadErrors]_vars
    /\ [][(exc \in FrameReadErrors) => UNCHANGED fsVars]_vars

C20_Witness ==
    /\ pc = "exit"
    /\ reported = "ClosedDuringImage"
    /\ data_length = 2
    /\ Len(image_data) = 1
    /\ ~dir_exists
    /\ files = {} /\ written = {}


\* a step that is one direct call of send_command, query_command or
\* get_screenshot
IoCallStep ==
    /\ pc = "api"
    /\ calls' = calls + 1
    /\ last_call'.op \in {"send_command", "query_command", "get_screenshot"}

\* C21: send_command, query_command and get_screenshot called while the
\* object holds no socket raise the not-connected error and leave the wire,
\* the bytes received, the socket with its timeout and the files as they are;
\* a closed socket is never held, and while no socket is held no step sends
\* or receives a byte.
C21_NotConnectedRefused ==
    /\ [](sock_state = "closed" => sock = "None")
    /\ [][(IoCallStep /\ sock = "None") =>
            /\ exc' = "NotConnected"
            /\ last_call'.status = "refused"
            /\ last_call'.op = "get_screenshot" => result' = NoPath
            /\ UNCHANGED << wire_out, reply, rx_pos, sockVars, original_timeout,
                            fsVars >>]_vars
    /\ [][(sock = "None") => UNCHANGED << wire_out, rx_pos >>]_vars

C21_Witness ==
    /\ last_call.op = "get_screenshot"
    /\ last_call.status = "refused"
    /\ exc = "NotConnected"
    /\ sock_state = "closed"
    /\ close_count = 1
    /\ sock_timeout = DefaultTimeout
    /\ written = {}

====
